---- MODULE Spec2Model ----
(***************************************************************************)
(* Todolala (todo.c): the in-memory line store `todo_lines`, the task      *)
(* indices computed from it, the mutations check / remove / clean / batch  *)
(* and the persistence of the store to the backing file.                   *)
(*                                                                         *)
(* A character is a one-character string, a C string is the sequence of    *)
(* its characters (the terminating NUL is the position Len + 1), the       *)
(* backing file is the sequence of its bytes.  The backing file is a text  *)
(* file: it holds no NUL byte.  C arrays are 0-based: todo_lines[i] of the *)
(* source is lines[i + 1] here, and the index arrays hold the 0-based      *)
(* positions the source stores.                                            *)
(***************************************************************************)
EXTENDS Integers, Sequences, FiniteSets, TLC

VARIABLES file, todo_lines, orig, before, last, mutated, pc, out, writes, added,
          status, procs, temp

vars ==
    <<file, todo_lines, orig, before, last, mutated, pc, out, writes, added, status, procs,
      temp>>

(***************************************************************************)
(* Bounds of the model.                                                    *)
(***************************************************************************)
\* fgets buffer size; the source has 256, the model a smaller buffer so that
\* over-long lines stay small.  Every line of the model is built from it.
MAX_LINE_LENGTH == 16

\* Greatest number of lines of the initial backing file.
MaxFileLines == 3

\* Greatest number of index tokens on a check / remove command line.
MaxTokens == 2

(***************************************************************************)
(* Characters and C string primitives.                                     *)
(***************************************************************************)
NL == "\n"

NUL == "NUL"

\* <ctype.h> isspace in the C locale (\v is left out: no file of the model has it)
isspace(c) == c \in {" ", "\t", "\n", "\f", "\r"}

\* s[i] for a 0-based i, reading the terminating NUL at i = Len(s)
CharAt(s, i) == IF i < Len(s) THEN s[i + 1] ELSE NUL

Min(S) == CHOOSE x \in S : \A y \in S : x <= y

RECURSIVE Concat(_)
Concat(ss) == IF ss = <<>> THEN <<>> ELSE Head(ss) \o Concat(Tail(ss))

\* strncmp(s + off, lit, n) == 0
strncmp_eq(s, off, lit, n) ==
    \A i \in 0..(n - 1) :
        \/ CharAt(s, off + i) = CharAt(lit, i)
        \/ \E j \in 0..(i - 1) : CharAt(s, off + j) = NUL /\ CharAt(lit, j) = NUL

\* strncpy(s + off, lit, n) for a lit of at least n characters
strncpy_at(s, off, lit, n) ==
    [i \in 1..Len(s) |-> IF i > off /\ i <= off + n THEN lit[i - off] ELSE s[i]]

UNFINISHED == <<"-", " ", "[", " ", "]">>

FINISHED == <<"-", " ", "[", "x", "]">>

\* The offset of the first non-whitespace character of s, from offset off
RECURSIVE skip_leading_whitespace(_, _)
skip_leading_whitespace(s, off) ==
    IF isspace(CharAt(s, off)) THEN skip_leading_whitespace(s, off + 1) ELSE off

(***************************************************************************)
(* The document: NULL, or a NULL-terminated array of lines.                *)
(***************************************************************************)
NULL == [null |-> TRUE, lines |-> <<>>]

Doc(ls) == [null |-> FALSE, lines |-> ls]

\* (an fgets that fills the whole buffer with characters)
fgets_FullBuffer(bytes) ==
    LET lim == IF Len(bytes) < MAX_LINE_LENGTH THEN Len(bytes) ELSE MAX_LINE_LENGTH
        nls == {i \in 1..lim : bytes[i] = NL}
    IN  IF nls = {} THEN SubSeq(bytes, 1, lim) ELSE SubSeq(bytes, 1, CHOOSE i \in nls : \A j \in nls : i <= j)

\* One fgets(line, MAX_LINE_LENGTH, file): at most MAX_LINE_LENGTH - 1 bytes,
\* stopping after a newline; <<>> at end of file.
fgets(bytes) ==
    LET lim == IF Len(bytes) < MAX_LINE_LENGTH - 1 THEN Len(bytes) ELSE MAX_LINE_LENGTH - 1
        nls == {i \in 1..lim : bytes[i] = NL}
    IN  IF nls = {} THEN SubSeq(bytes, 1, lim) ELSE SubSeq(bytes, 1, Min(nls))

\* (a load that drops what of an over-long line does not fit the buffer)
RECURSIVE ReadLoop_Truncating(_, _)
ReadLoop_Truncating(bytes, lines) ==
    LET line == fgets(bytes)
        rest == SubSeq(bytes, Len(line) + 1, Len(bytes))
        nls == {i \in 1..Len(rest) : rest[i] = NL}
        skip == IF line[Len(line)] = NL THEN 0
                ELSE IF nls = {} THEN Len(rest) ELSE Min(nls)
    IN  IF line = <<>> THEN lines
        ELSE ReadLoop_Truncating(SubSeq(rest, skip + 1, Len(rest)), Append(lines, line))

RECURSIVE ReadLoop(_, _)
ReadLoop(bytes, lines) ==
    LET line == fgets(bytes)
    IN  IF line = <<>> THEN lines
        ELSE ReadLoop(SubSeq(bytes, Len(line) + 1, Len(bytes)), Append(lines, line))

\* (a load that gives an empty array, not NULL, for an empty file)
get_all_lines_EmptyArray(f) ==
    IF ~f.exists THEN NULL ELSE Doc(ReadLoop(f.bytes, <<>>))

get_all_lines(f) ==
    IF ~f.exists THEN NULL
    ELSE LET lines == ReadLoop(f.bytes, <<>>)
         IN  IF Len(lines) = 0 THEN NULL ELSE Doc(lines)

\* (a save that takes a document without lines for nothing to save)
save_todos_SkipEmpty(doc, f) ==
    IF doc.null \/ doc.lines = <<>> THEN f
    ELSE [exists |-> TRUE, bytes |-> Concat(doc.lines)]

\* The backing file after save_todos (the file can be opened for writing)
save_todos(doc, f) ==
    IF doc.null THEN f ELSE [exists |-> TRUE, bytes |-> Concat(doc.lines)]

(***************************************************************************)
(* Task indices.                                                           *)
(***************************************************************************)
\* (a scan that compares the marker with the start of the line)
RECURSIVE ScanTasks_NoTrim(_, _, _, _, _)
ScanTasks_NoTrim(lines, marker, i, tasks, num) ==
    IF i >= Len(lines) THEN [tasks |-> tasks, count |-> num]
    ELSE IF strncmp_eq(lines[i + 1], 0, marker, 5)
         THEN ScanTasks_NoTrim(lines, marker, i + 1, Append(tasks, i), num + 1)
         ELSE ScanTasks_NoTrim(lines, marker, i + 1, tasks, num)

RECURSIVE ScanTasks(_, _, _, _, _)
ScanTasks(lines, marker, i, tasks, num) ==
    IF i >= Len(lines) THEN [tasks |-> tasks, count |-> num]
    ELSE LET trimmed_line == skip_leading_whitespace(lines[i + 1], 0)
         IN  IF strncmp_eq(lines[i + 1], trimmed_line, marker, 5)
             THEN ScanTasks(lines, marker, i + 1, Append(tasks, i), num + 1)
             ELSE ScanTasks(lines, marker, i + 1, tasks, num)

get_unfinished_tasks(doc) ==
    IF doc.null THEN [tasks |-> <<>>, count |-> 0]
    ELSE ScanTasks(doc.lines, UNFINISHED, 0, <<>>, 0)

get_finished_tasks(doc) ==
    IF doc.null THEN [tasks |-> <<>>, count |-> 0]
    ELSE ScanTasks(doc.lines, FINISHED, 0, <<>>, 0)

(***************************************************************************)
(* Mutations.                                                              *)
(***************************************************************************)
\* The array after the shift loop; at the terminator (line_index = Len) the
\* loop does not run.
delete_line(lines, line_index) ==
    IF line_index >= Len(lines) THEN lines
    ELSE [i \in 1..(Len(lines) - 1) |-> IF i <= line_index THEN lines[i] ELSE lines[i + 1]]

\* (a loop that deletes from the lowest finished position to the highest)
RECURSIVE DeleteLoop_Ascending(_, _, _)
DeleteLoop_Ascending(lines, finished_tasks, i) ==
    IF i < 0 THEN lines
    ELSE delete_line(DeleteLoop_Ascending(lines, finished_tasks, i - 1), finished_tasks[i + 1])

RECURSIVE DeleteLoop(_, _, _)
DeleteLoop(lines, finished_tasks, i) ==
    IF i < 0 THEN lines
    ELSE DeleteLoop(delete_line(lines, finished_tasks[i + 1]), finished_tasks, i - 1)

\* (a clean that deletes the last finished line only)
remove_finished_tasks_LastOnly(doc) ==
    LET f == get_finished_tasks(doc)
    IN  IF f.count = 0 THEN doc
        ELSE Doc(delete_line(doc.lines, f.tasks[f.count]))

remove_finished_tasks(doc) ==
    LET f == get_finished_tasks(doc)
    IN  IF f.count = 0 THEN doc
        ELSE Doc(DeleteLoop(doc.lines, f.tasks, f.count - 1))

\* (a remove that takes the task number for a line number)
remove_task_ByLineNumber(doc, index) ==
    IF index <= 0 THEN doc
    ELSE LET u == get_unfinished_tasks(doc)
         IN  IF u.count = 0 THEN doc
             ELSE IF index > u.count THEN doc
             ELSE Doc(delete_line(doc.lines, index - 1))

remove_task(doc, index) ==
    IF index <= 0 THEN doc
    ELSE LET u == get_unfinished_tasks(doc)
         IN  IF u.count = 0 THEN doc
             ELSE IF index > u.count THEN doc
             ELSE Doc(delete_line(doc.lines, u.tasks[index]))

\* (a check that writes the marker at the start of the line)
check_todo_AtLineStart(doc, index) ==
    IF index <= 0 THEN doc
    ELSE LET u == get_unfinished_tasks(doc)
         IN  IF u.count = 0 THEN doc
             ELSE IF index > u.count THEN doc
             ELSE LET line_index == u.tasks[index]
                      line == doc.lines[line_index + 1]
                  IN  Doc([doc.lines EXCEPT ![line_index + 1] =
                               strncpy_at(line, 0, FINISHED, 5)])

check_todo(doc, index) ==
    IF index <= 0 THEN doc
    ELSE LET u == get_unfinished_tasks(doc)
         IN  IF u.count = 0 THEN doc
             ELSE IF index > u.count THEN doc
             ELSE LET line_index == u.tasks[index]
                      line == doc.lines[line_index + 1]
                      trimmed_line == skip_leading_whitespace(line, 0)
                  IN  IF strncmp_eq(line, trimmed_line, UNFINISHED, 5)
                      THEN Doc([doc.lines EXCEPT ![line_index + 1] =
                                    strncpy_at(line, trimmed_line, FINISHED, 5)])
                      ELSE doc

(***************************************************************************)
(* Batch application of check / remove to the index tokens of the command  *)
(* line.                                                                   *)
(***************************************************************************)
Digits == <<"0", "1", "2", "3", "4", "5", "6", "7", "8", "9">>

isdigit(c) == \E d \in 1..10 : Digits[d] = c

DigitVal(c) == (CHOOSE d \in 1..10 : Digits[d] = c) - 1

RECURSIVE AtoiDigits(_, _, _)
AtoiDigits(s, off, acc) ==
    IF isdigit(CharAt(s, off)) THEN AtoiDigits(s, off + 1, 10 * acc + DigitVal(CharAt(s, off)))
    ELSE acc

\* <stdlib.h> atoi: leading whitespace, an optional sign, then the digits up
\* to the first character that is no digit (0 when there is none)
atoi(s) ==
    LET off == skip_leading_whitespace(s, 0)
    IN  IF CharAt(s, off) = "-" THEN 0 - AtoiDigits(s, off + 1, 0)
        ELSE IF CharAt(s, off) = "+" THEN AtoiDigits(s, off + 1, 0)
        ELSE AtoiDigits(s, off, 0)

\* (a comparison for ascending order)
compare_int_asc(ai, bi) == ai - bi

compare_int_desc(ai, bi) == bi - ai

\* x put into the sorted array: before the first element it does not compare
\* greater than
RECURSIVE SortedInsert(_, _)
SortedInsert(sorted, x) ==
    IF sorted = <<>> THEN <<x>>
    ELSE IF compare_int_desc(x, Head(sorted)) <= 0 THEN <<x>> \o sorted
    ELSE <<Head(sorted)>> \o SortedInsert(Tail(sorted), x)

\* (no sort: the indexes in command-line order)
qsort_Unsorted(indexes) == indexes

\* qsort(indexes, numIndexes, sizeof(int), compare_int_desc)
RECURSIVE qsort(_)
qsort(indexes) ==
    IF indexes = <<>> THEN <<>>
    ELSE SortedInsert(qsort(Tail(indexes)), Head(indexes))

\* (a parse loop that stops at the first invalid token)
RECURSIVE ParseIndexes_AbortOnInvalid(_)
ParseIndexes_AbortOnInvalid(tokens) ==
    IF tokens = <<>> THEN <<>>
    ELSE LET idx == atoi(Head(tokens))
         IN  IF idx <= 0 THEN <<>>
             ELSE <<idx>> \o ParseIndexes_AbortOnInvalid(Tail(tokens))

\* The parse loop: the tokens whose atoi is positive, in command-line order
RECURSIVE ParseIndexes(_)
ParseIndexes(tokens) ==
    IF tokens = <<>> THEN <<>>
    ELSE LET idx == atoi(Head(tokens))
         IN  IF idx <= 0 THEN ParseIndexes(Tail(tokens))
             ELSE <<idx>> \o ParseIndexes(Tail(tokens))

\* fn(index) for the two functions main passes
CallFn(fn, doc, index) ==
    IF fn = "check_todo" THEN check_todo(doc, index) ELSE remove_task(doc, index)

RECURSIVE ApplyLoop(_, _, _)
ApplyLoop(fn, doc, indexes) ==
    IF indexes = <<>> THEN doc
    ELSE ApplyLoop(fn, CallFn(fn, doc, Head(indexes)), Tail(indexes))

call_fn_with_indexes(doc, tokens, fn) ==
    ApplyLoop(fn, doc, qsort(ParseIndexes(tokens)))

(***************************************************************************)
(* What the operations print: a sequence of printf calls, each with its    *)
(* format, its %d arguments a and b and its %s argument text.              *)
(***************************************************************************)
Printf(format, a, b, text) == [format |-> format, a |-> a, b |-> b, text |-> text]

check_todo_stdout(doc, index) ==
    IF index <= 0 THEN <<Printf("Invalid index: %d", index, 0, <<>>)>>
    ELSE LET u == get_unfinished_tasks(doc)
         IN  IF u.count = 0 THEN <<Printf("No unfinished tasks found.", 0, 0, <<>>)>>
             ELSE IF index > u.count
                  THEN <<Printf("Invalid index: %d (only %d unfinished tasks)",
                                index, u.count, <<>>)>>
             ELSE <<>>

remove_task_stdout(doc, index) ==
    IF index <= 0 THEN <<Printf("Invalid index: %d", index, 0, <<>>)>>
    ELSE LET u == get_unfinished_tasks(doc)
         IN  IF u.count = 0 THEN <<Printf("No unfinished tasks found.", 0, 0, <<>>)>>
             ELSE IF index > u.count
                  THEN <<Printf("Invalid index: %d (only %d unfinished tasks)",
                                index, u.count, <<>>)>>
             ELSE <<>>

remove_finished_tasks_stdout(doc) ==
    IF get_finished_tasks(doc).count = 0
    THEN <<Printf("No finished tasks found.", 0, 0, <<>>)>>
    ELSE <<>>

\* The "Skipping invalid index: %s" lines of the parse loop
RECURSIVE ParseIndexes_stdout(_)
ParseIndexes_stdout(tokens) ==
    IF tokens = <<>> THEN <<>>
    ELSE IF atoi(Head(tokens)) <= 0
         THEN <<Printf("Skipping invalid index: %s", 0, 0, Head(tokens))>>
                  \o ParseIndexes_stdout(Tail(tokens))
         ELSE ParseIndexes_stdout(Tail(tokens))

CallFn_stdout(fn, doc, index) ==
    IF fn = "check_todo" THEN check_todo_stdout(doc, index) ELSE remove_task_stdout(doc, index)

RECURSIVE ApplyLoop_stdout(_, _, _)
ApplyLoop_stdout(fn, doc, indexes) ==
    IF indexes = <<>> THEN <<>>
    ELSE CallFn_stdout(fn, doc, Head(indexes))
             \o ApplyLoop_stdout(fn, CallFn(fn, doc, Head(indexes)), Tail(indexes))

call_fn_with_indexes_stdout(doc, tokens, fn) ==
    ParseIndexes_stdout(tokens) \o ApplyLoop_stdout(fn, doc, qsort(ParseIndexes(tokens)))

(***************************************************************************)
(* list_todos and add_todo.  Both can run into undefined behaviour; each   *)
(* is the set of its possible outcomes.  An outcome tells what was         *)
(* printed, whether the run crashed and, for add_todo, the file it left.   *)
(***************************************************************************)
\* What printf("%s") can print from a pointer beyond the terminating NUL
Garbage == {<<>>, <<"?">>}

\* (a print loop that takes entry i for the line number)
RECURSIVE ListLoop_ByLineNumber(_, _, _)
ListLoop_ByLineNumber(lines, tasks, i) ==
    IF i >= Len(tasks) THEN {[out |-> <<>>, crashed |-> FALSE]}
    ELSE LET line == lines[i + 1]
             trimmed_line == skip_leading_whitespace(line, 0)
             rest == ListLoop_ByLineNumber(lines, tasks, i + 1)
             Entry(text, r) ==
                 [out |-> <<Printf("%d) %s", i + 1, 0, text)>> \o r.out,
                  crashed |-> r.crashed]
         IN  IF trimmed_line + 6 <= Len(line)
             THEN {Entry(SubSeq(line, trimmed_line + 7, Len(line)), r) : r \in rest}
             ELSE {[out |-> <<>>, crashed |-> TRUE]}
                      \cup {Entry(g, r) : g \in Garbage, r \in rest}

\* The outcomes of the print loop of list_todos from entry i of the index
RECURSIVE ListLoop(_, _, _)
ListLoop(lines, tasks, i) ==
    IF i >= Len(tasks) THEN {[out |-> <<>>, crashed |-> FALSE]}
    ELSE LET line == lines[tasks[i + 1] + 1]
             trimmed_line == skip_leading_whitespace(line, 0)
             rest == ListLoop(lines, tasks, i + 1)
             Entry(text, r) ==
                 [out |-> <<Printf("%d) %s", i + 1, 0, text)>> \o r.out,
                  crashed |-> r.crashed]
         IN  IF trimmed_line + 6 <= Len(line)
             THEN {Entry(SubSeq(line, trimmed_line + 7, Len(line)), r) : r \in rest}
             ELSE {[out |-> <<>>, crashed |-> TRUE]}
                      \cup {Entry(g, r) : g \in Garbage, r \in rest}

list_todos(doc) ==
    LET u == get_unfinished_tasks(doc)
    IN  IF u.count = 0
        THEN {[out |-> <<Printf("No unfinished tasks found.", 0, 0, <<>>)>>,
               crashed |-> FALSE]}
        ELSE ListLoop(doc.lines, u.tasks, 0)

\* The slots of todo_lines the scan for the last line reads, from i on:
\* while (todo_lines[i + 1] != NULL) i++.  The slots 0 .. Len(lines) - 1 hold
\* the lines, slot Len(lines) is the terminator; the array keeps the size it
\* was read into, and delete_line leaves NULL in the slots behind the
\* terminator.
RECURSIVE ScanLastLine(_, _)
ScanLastLine(lines, i) ==
    IF i + 1 >= Len(lines) THEN <<i + 1>>
    ELSE <<i + 1>> \o ScanLastLine(lines, i + 1)

\* The slots add_todo reads once the file is open
add_todo_reads(doc) == IF doc.null THEN <<>> ELSE ScanLastLine(doc.lines, 0)

\* fprintf(file, "- [ ] %s\n", task) after the separator sep
AppendTask(f, sep, task) ==
    [exists |-> TRUE, bytes |-> f.bytes \o sep \o UNFINISHED \o <<" ">> \o task \o <<NL>>]

\* (an add_todo that never writes the separating newline)
add_todo_NoSeparator(doc, f, task, opens) ==
    IF ~opens
    THEN {[file |-> f, crashed |-> FALSE, wrote |-> FALSE,
           out |-> <<Printf("Error opening %s for appending.", 0, 0, <<>>)>>]}
    ELSE {[file |-> AppendTask(f, <<>>, task), crashed |-> FALSE, wrote |-> TRUE,
           out |-> <<>>]}

\* The outcomes of add_todo; opens tells whether fopen(.., "a") succeeds.
\* A document whose lines were all deleted has todo_lines[0] = NULL and
\* todo_lines[1] = NULL: the scan stops at i = 0 and strlen(NULL) is undefined.
add_todo(doc, f, task, opens) ==
    IF ~opens
    THEN {[file |-> f, crashed |-> FALSE, wrote |-> FALSE,
           out |-> <<Printf("Error opening %s for appending.", 0, 0, <<>>)>>]}
    ELSE LET opened == [exists |-> TRUE, bytes |-> f.bytes]
             Done(sep) == [file |-> AppendTask(opened, sep, task), crashed |-> FALSE,
                           wrote |-> TRUE, out |-> <<>>]
         IN  IF doc.null THEN {Done(<<>>)}
             ELSE IF doc.lines = <<>>
                  THEN {[file |-> opened, crashed |-> TRUE, wrote |-> FALSE, out |-> <<>>],
                        Done(<<>>), Done(<<NL>>)}
             ELSE LET last_line == doc.lines[Len(doc.lines)]
                      len == Len(last_line)
                  IN  {Done(IF len > 0 /\ last_line[len] # NL THEN <<NL>> ELSE <<>>)}

(***************************************************************************)
(* Inputs.                                                                 *)
(***************************************************************************)
Task1 == <<"-", " ", "[", " ", "]", " ", "T", "a", "s", "k", " ", "1">>

Task2 == <<"-", " ", "[", "x", "]", " ", "T", "a", "s", "k", " ", "2">>

Task3 == <<"-", " ", "[", " ", "]", " ", "T", "a", "s", "k", " ", "3">>

\* an unfinished task behind leading whitespace
Indented == <<" ", "\t", "-", " ", "[", " ", "]", " ", "w">>

\* not a task: the marker is case-sensitive
UpperX == <<"-", " ", "[", "X", "]", " ", "n">>

\* not a task, and one character longer than the fgets buffer can hold before
\* its last 7 characters
LongOther == [i \in 1..(MAX_LINE_LENGTH - 1) |-> "o"] \o <<"-", " ", "[", " ", "]", " ", "z">>

LinePool == {Task1, Task2, Indented, UpperX, LongOther}

\* The document of test_get_unfinished_tasks, as a file
MockFile == Task1 \o <<NL>> \o Task2 \o <<NL>> \o Task3 \o <<NL>>

\* The lines of the files the batch commands run on
BatchLinePool == {Task1, Task2, Task3, UpperX}

\* The sequences of at most n elements of S
RECURSIVE SeqsUpTo(_, _)
SeqsUpTo(S, n) ==
    IF n = 0 THEN {<<>>}
    ELSE LET shorter == SeqsUpTo(S, n - 1)
         IN  shorter \cup {Append(s, x) : s \in shorter, x \in S}

\* The file of the lines ls, every line terminated but, if ~term, the last
FileOf(ls, term) ==
    LET all == Concat([i \in 1..Len(ls) |-> ls[i] \o <<NL>>])
    IN  IF term \/ ls = <<>> THEN all ELSE SubSeq(all, 1, Len(all) - 1)

NoFile == [exists |-> FALSE, bytes |-> <<>>]

\* The file of the test, and the files of at most MaxFileLines lines, the
\* shorter ones also without the terminator of the last line
InitFiles ==
    {NoFile, [exists |-> TRUE, bytes |-> MockFile]}
    \cup {[exists |-> TRUE, bytes |-> FileOf(ls, TRUE)] : ls \in SeqsUpTo(LinePool, MaxFileLines)}
    \cup {[exists |-> TRUE, bytes |-> FileOf(ls, FALSE)] :
              ls \in SeqsUpTo(LinePool, MaxFileLines - 1)}

BatchFiles ==
    {NoFile}
    \cup {[exists |-> TRUE, bytes |-> FileOf(ls, TRUE)] :
              ls \in SeqsUpTo(BatchLinePool, MaxFileLines)}

TokenPool == {<<"1">>, <<"2">>, <<"3">>, <<"0">>, <<"-", "1">>, <<"2", "x">>, <<"x">>}

TokenLists == SeqsUpTo(TokenPool, MaxTokens) \ {<<>>}

\* The task numbers of the single-task operations of a check / remove run
IndexArgs == (0 - 1)..(MaxFileLines + 1)

\* The task numbers of the operations of a run of many operations
TaskNumbers == 0..MaxFileLines

(***************************************************************************)
(* The state machine: one run of the program on the backing file.  It      *)
(* reads the file into the global todo_lines, applies operations of todo.h *)
(* to it and saves it.  orig is the file as it was when the run began,     *)
(* before the document before the last operation, last the last operation  *)
(* and its operands, mutated whether a mutation was called since the load, *)
(* out what the last operation printed, writes how often the file was      *)
(* opened for writing or appending, added the tasks add_todo has written   *)
(* to the file.  status (the exit status of main) and procs (concurrent   *)
(* runs) belong to the runs of main further down, temp (the temporary     *)
(* file temp.md) to the runs of the streaming check_todo.                  *)
(***************************************************************************)
Running == 0 - 1

NoProcs == <<>>

Op(op, index, tokens, fn) == [op |-> op, index |-> index, tokens |-> tokens, fn |-> fn]

InitWith(files) ==
    /\ file \in files
    /\ todo_lines = NULL
    /\ orig = file
    /\ before = NULL
    /\ last = Op("init", 0, <<>>, "")
    /\ mutated = FALSE
    /\ pc = "start"
    /\ out = <<>>
    /\ writes = 0
    /\ added = <<>>
    /\ temp = NoFile
    /\ status = Running
    /\ procs = NoProcs

Init == InitWith(InitFiles)

InitBatch == InitWith(BatchFiles)

\* todo_lines = get_all_lines();
Load ==
    /\ pc = "start"
    /\ todo_lines' = get_all_lines(file)
    /\ orig' = file
    /\ before' = todo_lines
    /\ last' = Op("get_all_lines", 0, <<>>, "")
    /\ mutated' = FALSE
    /\ pc' = "loaded"
    /\ out' = <<>>
    /\ UNCHANGED <<temp, file, writes, added, status, procs>>

CheckTodo(index) ==
    /\ pc = "loaded"
    /\ todo_lines' = check_todo(todo_lines, index)
    /\ before' = todo_lines
    /\ last' = Op("check_todo", index, <<>>, "")
    /\ mutated' = TRUE
    /\ out' = check_todo_stdout(todo_lines, index)
    /\ UNCHANGED <<temp, file, orig, pc, writes, added, status, procs>>

RemoveTask(index) ==
    /\ pc = "loaded"
    /\ todo_lines' = remove_task(todo_lines, index)
    /\ before' = todo_lines
    /\ last' = Op("remove_task", index, <<>>, "")
    /\ mutated' = TRUE
    /\ out' = remove_task_stdout(todo_lines, index)
    /\ UNCHANGED <<temp, file, orig, pc, writes, added, status, procs>>

RemoveFinishedTasks ==
    /\ pc = "loaded"
    /\ todo_lines' = remove_finished_tasks(todo_lines)
    /\ before' = todo_lines
    /\ last' = Op("remove_finished_tasks", 0, <<>>, "")
    /\ mutated' = TRUE
    /\ out' = remove_finished_tasks_stdout(todo_lines)
    /\ UNCHANGED <<temp, file, orig, pc, writes, added, status, procs>>

CallFnWithIndexes(tokens, fn) ==
    /\ pc = "loaded"
    /\ todo_lines' = call_fn_with_indexes(todo_lines, tokens, fn)
    /\ before' = todo_lines
    /\ last' = Op("call_fn_with_indexes", 0, tokens, fn)
    /\ mutated' = TRUE
    /\ out' = call_fn_with_indexes_stdout(todo_lines, tokens, fn)
    /\ UNCHANGED <<temp, file, orig, pc, writes, added, status, procs>>

SaveTodos ==
    /\ pc = "loaded"
    /\ file' = save_todos(todo_lines, file)
    /\ before' = todo_lines
    /\ last' = Op("save_todos", 0, <<>>, "")
    /\ pc' = "saved"
    /\ out' = <<>>
    /\ writes' = IF todo_lines.null THEN writes ELSE writes + 1
    /\ UNCHANGED <<temp, todo_lines, orig, mutated, added, status, procs>>

\* A run that applies the single operations
Next ==
    \/ Load
    \/ \E index \in TaskNumbers : CheckTodo(index)
    \/ \E index \in TaskNumbers : RemoveTask(index)
    \/ RemoveFinishedTasks
    \/ SaveTodos

Spec == Init /\ [][Next]_vars

\* The operation main applies to the document it has just read
Fresh == last.op = "get_all_lines"

\* A run of the check and remove commands of main: read, one operation, save
NextBatch ==
    \/ Load
    \/ \E index \in IndexArgs : Fresh /\ CheckTodo(index)
    \/ \E index \in IndexArgs : Fresh /\ RemoveTask(index)
    \/ \E tokens \in TokenLists : Fresh /\ CallFnWithIndexes(tokens, "check_todo")
    \/ \E tokens \in TokenLists : Fresh /\ CallFnWithIndexes(tokens, "remove_task")
    \/ SaveTodos

SpecBatch == InitBatch /\ [][NextBatch]_vars

(***************************************************************************)
(* Runs that also list and add.                                            *)
(***************************************************************************)
\* Greatest number of lines of the initial backing file of these runs.
MaxIOLines == 2

\* Greatest number of add_todo calls that write in one run.
MaxAdds == 1

\* An unfinished task whose text follows the marker directly
NoSep == <<"-", " ", "[", " ", "]", "q">>

\* The bare marker
Bare == <<"-", " ", "[", " ", "]">>

IOLinePool == {Task1, Task2, Indented, NoSep, Bare}

\* The task texts given to add_todo
TaskTexts == {<<"N", "e", "w">>, <<"b">>}

\* The files of at most MaxIOLines lines, the shorter ones also without the
\* terminator of the last line
IOFiles ==
    {NoFile}
    \cup {[exists |-> TRUE, bytes |-> FileOf(ls, TRUE)] :
              ls \in SeqsUpTo(IOLinePool, MaxIOLines)}
    \cup {[exists |-> TRUE, bytes |-> FileOf(ls, FALSE)] :
              ls \in SeqsUpTo(IOLinePool, MaxIOLines - 1)}

IOIndexArgs == (0 - 1)..MaxIOLines

InitIO == InitWith(IOFiles)

ListTodos ==
    /\ pc = "loaded"
    /\ \E o \in list_todos(todo_lines) :
           /\ out' = o.out
           /\ pc' = IF o.crashed THEN "crashed" ELSE pc
    /\ before' = todo_lines
    /\ last' = Op("list_todos", 0, <<>>, "")
    /\ UNCHANGED <<temp, file, todo_lines, orig, mutated, writes, added, status, procs>>

AddTodo(task, opens) ==
    /\ pc = "loaded"
    /\ Len(added) < MaxAdds
    /\ \E o \in add_todo(todo_lines, file, task, opens) :
           /\ file' = o.file
           /\ out' = o.out
           /\ pc' = IF o.crashed THEN "crashed" ELSE pc
           /\ added' = IF o.wrote THEN Append(added, task) ELSE added
    /\ writes' = IF opens THEN writes + 1 ELSE writes
    /\ before' = todo_lines
    /\ last' = Op("add_todo", 0, <<task>>, "")
    /\ UNCHANGED <<temp, todo_lines, orig, mutated, status, procs>>

\* A run of the operations of todo.h in any order
NextIO ==
    \/ Load
    \/ ListTodos
    \/ \E task \in TaskTexts, opens \in BOOLEAN : AddTodo(task, opens)
    \/ \E index \in IOIndexArgs : CheckTodo(index)
    \/ \E index \in IOIndexArgs : RemoveTask(index)
    \/ RemoveFinishedTasks
    \/ SaveTodos

SpecIO == InitIO /\ [][NextIO]_vars

(***************************************************************************)
(* main: one invocation of the program with the command line argv          *)
(* (argv[0] is the program name), on the file todos_filename names.        *)
(***************************************************************************)
\* The eight lines print_usage prints, as one
print_usage(prog_name) == <<Printf("Usage:", 0, 0, prog_name)>>

\* len > 3 && strcmp(argv[1] + (len - 3), ".md") == 0
EndsWithMd(s) == Len(s) > 3 /\ SubSeq(s, Len(s) - 2, Len(s)) = <<".", "m", "d">>

ListCommands == {<<"l", "i", "s", "t">>, <<"l">>}

CheckCommands == {<<"c", "h", "e", "c", "k">>, <<"c">>}

RemoveCommands == {<<"r", "e", "m", "o", "v", "e">>, <<"r">>}

CleanCommands == {<<"c", "l", "e", "a", "n">>}

\* How main ends: its exit status (Running if it crashed before returning),
\* what it printed, the file and the document it leaves, how often it opened
\* the file for writing, whether it called a mutation, the task it added
Ended(st, o, f, doc, w, m, a, crashed) ==
    [status |-> st, out |-> o, file |-> f, doc |-> doc, writes |-> w,
     mutated |-> m, added |-> a, crashed |-> crashed]

\* The outcomes of main(argc, argv) on the file f
main(argv, f) ==
    LET argc == Len(argv)
        Arg(i) == argv[i + 1]
    IN  IF argc < 2
        THEN {Ended(1, print_usage(Arg(0)), f, NULL, 0, FALSE, <<>>, FALSE)}
        ELSE
        LET argIndex == IF EndsWithMd(Arg(1)) THEN 2 ELSE 1
        IN  IF argIndex > argc - 1
            THEN {Ended(1, print_usage(Arg(0)), f, NULL, 0, FALSE, <<>>, FALSE)}
            ELSE
            LET doc == get_all_lines(f)
                cmd == Arg(argIndex)
                tokens == SubSeq(argv, argIndex + 2, argc)
                Batch(fn, usage) ==
                    IF argIndex + 1 >= argc
                    THEN {Ended(1, <<Printf(usage, 0, 0, Arg(0))>>, f, doc, 0, FALSE,
                                <<>>, FALSE)}
                    ELSE LET d == call_fn_with_indexes(doc, tokens, fn)
                         IN  {Ended(0, call_fn_with_indexes_stdout(doc, tokens, fn),
                                    save_todos(d, f), d, IF d.null THEN 0 ELSE 1,
                                    ParseIndexes(tokens) # <<>>, <<>>, FALSE)}
            IN  IF cmd \in ListCommands
                THEN {Ended(IF o.crashed THEN Running ELSE 0, o.out, f, doc, 0, FALSE,
                            <<>>, o.crashed) : o \in list_todos(doc)}
                ELSE IF cmd \in CheckCommands
                THEN Batch("check_todo", "Usage: %s [<file.md>] check <index>")
                ELSE IF cmd \in RemoveCommands
                THEN Batch("remove_task", "Usage: %s [<file.md>] remove <index>")
                ELSE IF cmd \in CleanCommands
                THEN LET d == remove_finished_tasks(doc)
                     IN  {Ended(0, remove_finished_tasks_stdout(doc), save_todos(d, f), d,
                                IF d.null THEN 0 ELSE 1, TRUE, <<>>, FALSE)}
                ELSE UNION {{Ended(IF o.crashed THEN Running ELSE 0, o.out, o.file, doc,
                                   IF opens THEN 1 ELSE 0, FALSE,
                                   IF o.wrote THEN <<cmd>> ELSE <<>>, o.crashed) :
                                 o \in add_todo(doc, f, cmd, opens)} : opens \in BOOLEAN}

\* Command lines
ProgName == <<"t", "o", "d", "o">>

FileArg == <<"t", ".", "m", "d">>

Commands ==
    ListCommands \cup CheckCommands \cup RemoveCommands \cup CleanCommands \cup TaskTexts

\* todo, todo t.md, and todo [t.md] command [index tokens for check / remove]
ArgVectors ==
    {<<ProgName>>, <<ProgName, FileArg>>}
    \cup {<<ProgName>> \o pre \o <<cmd>> :
              pre \in {<<>>, <<FileArg>>}, cmd \in Commands}
    \cup {<<ProgName>> \o pre \o <<cmd>> \o tokens :
              pre \in {<<>>, <<FileArg>>}, cmd \in CheckCommands \cup RemoveCommands,
              tokens \in TokenLists}

MainLinePool == {Task1, Task2, Task3}

MainFiles ==
    {NoFile}
    \cup {[exists |-> TRUE, bytes |-> FileOf(ls, TRUE)] :
              ls \in SeqsUpTo(MainLinePool, MaxIOLines)}

InitMain == InitWith(MainFiles)

Main(argv) ==
    /\ pc = "start"
    /\ \E r \in main(argv, file) :
           /\ status' = r.status
           /\ out' = r.out
           /\ file' = r.file
           /\ todo_lines' = r.doc
           /\ writes' = r.writes
           /\ mutated' = r.mutated
           /\ added' = r.added
           /\ pc' = IF r.crashed THEN "crashed" ELSE "exited"
    /\ before' = get_all_lines(file)
    /\ last' = Op("main", 0, argv, "")
    /\ UNCHANGED <<temp, orig, procs>>

NextMain == \E argv \in ArgVectors : Main(argv)

SpecMain == InitMain /\ [][NextMain]_vars

(***************************************************************************)
(* Two invocations of main on the same file, with no locking.  Each reads  *)
(* the file into its own todo_lines, applies its command to it and writes: *)
(* save_todos for check, remove and clean, add_todo for a new task.  The   *)
(* steps of the two interleave.  A process records the document it read    *)
(* (snapshot), its document now (doc), the steps it has taken, and when,   *)
(* in steps of the whole system, it read and wrote.                        *)
(***************************************************************************)
Procs == {1, 2}

Command(op, index, task) == [op |-> op, index |-> index, task |-> task]

RaceCommands ==
    {Command("check_todo", n, <<>>) : n \in 1..MaxIOLines}
    \cup {Command("remove_task", n, <<>>) : n \in 1..MaxIOLines}
    \cup {Command("remove_finished_tasks", 0, <<>>)}
    \cup {Command("add_todo", 0, task) : task \in TaskTexts}

Started(cmd) ==
    [cmd |-> cmd, pc |-> "start", snapshot |-> NULL, doc |-> NULL, steps |-> 0,
     loadedAt |-> 0, wroteAt |-> 0, persisted |-> FALSE]

RaceFiles ==
    {NoFile}
    \cup {[exists |-> TRUE, bytes |-> FileOf(ls, term)] :
              ls \in SeqsUpTo(MainLinePool, MaxIOLines), term \in BOOLEAN}

InitRace ==
    /\ file \in RaceFiles
    /\ todo_lines = NULL
    /\ orig = file
    /\ before = NULL
    /\ last = Op("init", 0, <<>>, "")
    /\ mutated = FALSE
    /\ pc = "start"
    /\ out = <<>>
    /\ writes = 0
    /\ added = <<>>
    /\ temp = NoFile
    /\ status = Running
    /\ procs \in {[p \in Procs |-> Started(c[p])] : c \in [Procs -> RaceCommands]}

\* The steps the system has taken
Clock == procs[1].steps + procs[2].steps

\* (a load that reads the file as it was when the system started)
ProcLoad_FromOrig(p) ==
    /\ procs[p].pc = "start"
    /\ procs' = [procs EXCEPT ![p] =
                    [@ EXCEPT !.pc = "loaded", !.snapshot = get_all_lines(orig),
                              !.doc = get_all_lines(orig), !.steps = @ + 1,
                              !.loadedAt = Clock + 1]]
    /\ UNCHANGED <<file, todo_lines, orig, before, last, mutated, pc, out, writes, added,
                   status, temp>>

\* todo_lines = get_all_lines();
ProcLoad(p) ==
    /\ procs[p].pc = "start"
    /\ procs' = [procs EXCEPT ![p] =
                    [@ EXCEPT !.pc = "loaded", !.snapshot = get_all_lines(file),
                              !.doc = get_all_lines(file), !.steps = @ + 1,
                              !.loadedAt = Clock + 1]]
    /\ UNCHANGED <<file, todo_lines, orig, before, last, mutated, pc, out, writes, added,
                   status, temp>>

\* call_fn_with_indexes(.., check_todo / remove_task) or remove_finished_tasks()
ProcMutate(p) ==
    /\ procs[p].pc = "loaded"
    /\ procs[p].cmd.op # "add_todo"
    /\ LET cmd == procs[p].cmd
           d == IF cmd.op = "remove_finished_tasks"
                THEN remove_finished_tasks(procs[p].doc)
                ELSE call_fn_with_indexes(procs[p].doc, <<<<Digits[cmd.index + 1]>>>>, cmd.op)
       IN  procs' = [procs EXCEPT ![p] =
                        [@ EXCEPT !.pc = "mutated", !.doc = d, !.steps = @ + 1]]
    /\ UNCHANGED <<file, todo_lines, orig, before, last, mutated, pc, out, writes, added,
                   status, temp>>

\* save_todos(), or add_todo(argv[argIndex]) for a new task
ProcWrite(p) ==
    /\ \/ procs[p].pc = "mutated"
       \/ procs[p].pc = "loaded" /\ procs[p].cmd.op = "add_todo"
    /\ IF procs[p].cmd.op = "add_todo"
       THEN \E opens \in BOOLEAN : \E o \in add_todo(procs[p].doc, file, procs[p].cmd.task, opens) :
                /\ file' = o.file
                /\ writes' = IF opens THEN writes + 1 ELSE writes
                /\ added' = IF o.wrote THEN Append(added, procs[p].cmd.task) ELSE added
                /\ procs' = [procs EXCEPT ![p] =
                                [@ EXCEPT !.pc = "done", !.steps = @ + 1,
                                          !.wroteAt = Clock + 1, !.persisted = o.wrote]]
       ELSE /\ file' = save_todos(procs[p].doc, file)
            /\ writes' = IF procs[p].doc.null THEN writes ELSE writes + 1
            /\ added' = added
            /\ procs' = [procs EXCEPT ![p] =
                            [@ EXCEPT !.pc = "done", !.steps = @ + 1,
                                      !.wroteAt = Clock + 1,
                                      !.persisted = ~procs[p].doc.null]]
    /\ UNCHANGED <<temp, todo_lines, orig, before, last, mutated, pc, out, status>>

NextRace ==
    \/ \E p \in Procs : ProcLoad(p)
    \/ \E p \in Procs : ProcMutate(p)
    \/ \E p \in Procs : ProcWrite(p)

SpecRace == InitRace /\ [][NextRace]_vars

(***************************************************************************)
(* The streaming variant of the program (todo.c before it kept the lines   *)
(* in memory): check_todo copies todo.md line by line to temp.md, marks    *)
(* the task on the way, and renames temp.md to todo.md.  It has the same   *)
(* fgets buffer and the same skip_leading_whitespace.                      *)
(***************************************************************************)
\* The copy loop: what is written to temp.md for the lines from i on, and
\* whether the task was found; current_unfinished numbers the next task
RECURSIVE StreamLoop(_, _, _, _)
StreamLoop(lines, index, current_unfinished, i) ==
    IF i >= Len(lines) THEN [bytes |-> <<>>, found |-> FALSE]
    ELSE LET line == lines[i + 1]
             trimmed_line == skip_leading_whitespace(line, 0)
             task == strncmp_eq(line, trimmed_line, UNFINISHED, 5)
             hit == task /\ current_unfinished = index
             rest == StreamLoop(lines, index,
                                IF task THEN current_unfinished + 1 ELSE current_unfinished,
                                i + 1)
             \* fprintf(temp, "- [x]%s", line + 5) or fprintf(temp, "%s", line)
             written == IF hit THEN FINISHED \o SubSeq(line, 6, Len(line)) ELSE line
         IN  [bytes |-> written \o rest.bytes, found |-> hit \/ rest.found]

\* The files todo.md (f) and temp.md (t) after check_todo(index) and what it
\* prints; creates tells whether fopen(TEMP_FILE, "w") succeeds
stream_check_todo(f, t, index, creates) ==
    IF ~f.exists
    THEN [file |-> f, temp |-> t, out |-> <<Printf("No todos found.", 0, 0, <<>>)>>]
    ELSE IF ~creates
    THEN [file |-> f, temp |-> t,
          out |-> <<Printf("Error creating temporary file.", 0, 0, <<>>)>>]
    ELSE LET copy == StreamLoop(ReadLoop(f.bytes, <<>>), index, 1, 0)
         IN  IF ~copy.found
             THEN [file |-> f, temp |-> NoFile,
                   out |-> <<Printf("Invalid index: %d", index, 0, <<>>)>>]
             ELSE [file |-> [exists |-> TRUE, bytes |-> copy.bytes], temp |-> NoFile,
                   out |-> <<>>]

\* A temp.md left behind by an earlier run
StaleTemp == [exists |-> TRUE, bytes |-> Task3 \o <<NL>>]

InitStream ==
    /\ file \in InitFiles
    /\ temp \in {NoFile, StaleTemp}
    /\ todo_lines = NULL
    /\ orig = file
    /\ before = NULL
    /\ last = Op("init", 0, <<>>, "")
    /\ mutated = FALSE
    /\ pc = "start"
    /\ out = <<>>
    /\ writes = 0
    /\ added = <<>>
    /\ status = Running
    /\ procs = NoProcs

StreamCheckTodo(index, creates) ==
    /\ pc = "start"
    /\ LET r == stream_check_todo(file, temp, index, creates)
       IN  /\ file' = r.file
           /\ temp' = r.temp
           /\ out' = r.out
    /\ last' = Op("stream_check_todo", index, <<>>, "")
    /\ pc' = "exited"
    /\ UNCHANGED <<todo_lines, orig, before, mutated, writes, added, status, procs>>

NextStream == \E index \in TaskNumbers, creates \in BOOLEAN : StreamCheckTodo(index, creates)

SpecStream == InitStream /\ [][NextStream]_vars

(***************************************************************************)
(* The task-line grammar and the vocabulary of the properties.             *)
(***************************************************************************)
StartsWith(s, prefix) == Len(s) >= Len(prefix) /\ SubSeq(s, 1, Len(prefix)) = prefix

\* The number of whitespace characters s begins with
LeadingSpace(s) ==
    CHOOSE k \in 0..Len(s) :
        /\ \A i \in 1..k : isspace(s[i])
        /\ k < Len(s) => ~isspace(s[k + 1])

Stripped(s) == SubSeq(s, LeadingSpace(s) + 1, Len(s))

IsUnfinished(s) == StartsWith(Stripped(s), <<"-", " ", "[", " ", "]">>)

IsFinished(s) == StartsWith(Stripped(s), <<"-", " ", "[", "x", "]">>)

IsOther(s) == ~IsUnfinished(s) /\ ~IsFinished(s)

\* The 0-based positions of the lines of ls that satisfy P
Positions(ls, P(_)) == {i \in 0..(Len(ls) - 1) : P(ls[i + 1])}

Range(f) == {f[i] : i \in DOMAIN f}

StrictlyAscending(f) == \A i, j \in DOMAIN f : i < j => f[i] < f[j]

\* The n-th smallest element of the set S of numbers
Nth(S, n) == CHOOSE x \in S : Cardinality({y \in S : y < x}) = n - 1

\* ls without the lines at the 0-based positions in S
Without(ls, S) ==
    LET keep == {i \in 0..(Len(ls) - 1) : i \notin S}
    IN  [k \in 1..Cardinality(keep) |-> ls[Nth(keep, k) + 1]]

\* The task number n names an unfinished task of the document d
ValidNumber(d, n) == 1 <= n /\ n <= Cardinality(Positions(d.lines, IsUnfinished))

\* The position of unfinished task number n of the document d
TaskPosition(d, n) == Nth(Positions(d.lines, IsUnfinished), n)

\* line with its marker, and nothing else, turned into "- [x]"
Checked(line) ==
    [i \in 1..Len(line) |->
        IF i = LeadingSpace(line) + 4 THEN "x" ELSE line[i]]

(***************************************************************************)
(* C10.  In every document, get_unfinished_tasks returns, strictly         *)
(* ascending, exactly the 0-based positions of the lines that begin, after *)
(* their leading whitespace, with "- [ ]", and get_finished_tasks those of *)
(* the lines that begin with "- [x]" (so "- [X]" is in neither); count_out *)
(* is the number of positions returned, the two indices are disjoint, an   *)
(* absent document or one without a match gives count 0, and the lines     *)
(* Task 1 / Task 2 (finished) / Task 3 give [0,2] and [1].                 *)
(***************************************************************************)
MockLines == <<Task1 \o <<NL>>, Task2 \o <<NL>>, Task3 \o <<NL>>>>

C10_Indexing ==
    LET u == get_unfinished_tasks(todo_lines)
        f == get_finished_tasks(todo_lines)
    IN  /\ StrictlyAscending(u.tasks) /\ StrictlyAscending(f.tasks)
        /\ Range(u.tasks) = Positions(todo_lines.lines, IsUnfinished)
        /\ Range(f.tasks) = Positions(todo_lines.lines, IsFinished)
        /\ u.count = Len(u.tasks) /\ f.count = Len(f.tasks)
        /\ Range(u.tasks) \cap Range(f.tasks) = {}
        /\ todo_lines.null => u.count = 0 /\ f.count = 0
        /\ \A i \in 1..Len(todo_lines.lines) :
               StartsWith(todo_lines.lines[i], <<"-", " ", "[", "X", "]">>)
                   => i - 1 \notin Range(u.tasks) \cup Range(f.tasks)
        /\ todo_lines.lines = MockLines => u.tasks = <<0, 2>> /\ f.tasks = <<1>>

\* the document of the test, read from the file
C10_Witness ==
    /\ last.op = "get_all_lines"
    /\ todo_lines.lines = MockLines
    /\ get_unfinished_tasks(todo_lines).count = 2

(***************************************************************************)
(* C2.  check_todo(n) with 1 <= n <= number of unfinished lines changes    *)
(* only the marker of the line at unfinishedIndex[n-1] from "- [ ]" to     *)
(* "- [x]", keeping its leading whitespace and the text after the marker;  *)
(* every other line stays where and what it was; the unfinished index      *)
(* loses exactly that position and the finished index gains exactly it.    *)
(***************************************************************************)
C2_CheckFrame ==
    (last.op = "check_todo" /\ ValidNumber(before, last.index)) =>
        LET p == TaskPosition(before, last.index)
        IN  /\ ~todo_lines.null
            /\ Len(todo_lines.lines) = Len(before.lines)
            /\ \A i \in 1..Len(before.lines) :
                   todo_lines.lines[i] =
                       IF i = p + 1 THEN Checked(before.lines[i]) ELSE before.lines[i]
            /\ Range(get_unfinished_tasks(todo_lines).tasks) =
                   Range(get_unfinished_tasks(before).tasks) \ {p}
            /\ Range(get_finished_tasks(todo_lines).tasks) =
                   Range(get_finished_tasks(before).tasks) \cup {p}
            /\ p \in Range(get_unfinished_tasks(before).tasks)
            /\ p \notin Range(get_finished_tasks(before).tasks)

\* the second unfinished task, an indented one, was checked
C2_Witness ==
    /\ last.op = "check_todo"
    /\ last.index = 2
    /\ ValidNumber(before, 2)
    /\ before.lines[TaskPosition(before, 2) + 1] = Indented \o <<NL>>
    /\ todo_lines # before

(***************************************************************************)
(* C3.  remove_task(n) with 1 <= n <= number of unfinished lines deletes   *)
(* exactly the line at unfinishedIndex[n-1]: the later lines move up by    *)
(* one, the unfinished index is one shorter and the unfinished tasks that  *)
(* remain keep their order.                                                *)
(***************************************************************************)
C3_RemoveOne ==
    (last.op = "remove_task" /\ ValidNumber(before, last.index)) =>
        LET p == TaskPosition(before, last.index)
        IN  /\ ~todo_lines.null
            /\ Len(todo_lines.lines) = Len(before.lines) - 1
            /\ \A i \in 1..Len(todo_lines.lines) :
                   todo_lines.lines[i] =
                       IF i <= p THEN before.lines[i] ELSE before.lines[i + 1]
            /\ get_unfinished_tasks(todo_lines).count =
                   get_unfinished_tasks(before).count - 1
            /\ SelectSeq(todo_lines.lines, IsUnfinished) =
                   LET tasks == SelectSeq(before.lines, IsUnfinished)
                   IN  SubSeq(tasks, 1, last.index - 1)
                           \o SubSeq(tasks, last.index + 1, Len(tasks))

\* the middle one of three unfinished tasks was removed
C3_Witness ==
    /\ last.op = "remove_task"
    /\ last.index = 2
    /\ Cardinality(Positions(before.lines, IsUnfinished)) = 3
    /\ Len(todo_lines.lines) = 2

(***************************************************************************)
(* C4.  remove_finished_tasks leaves exactly the lines that are not        *)
(* FINISHED, in their order and byte-identical (deleting from the highest  *)
(* finished position to the lowest, no position goes stale); a document    *)
(* without a finished line is unchanged.                                   *)
(***************************************************************************)
NotFinished(s) == ~IsFinished(s)

C4_CleanResult ==
    last.op = "remove_finished_tasks" =>
        /\ todo_lines.null = before.null
        /\ todo_lines.lines = SelectSeq(before.lines, NotFinished)
        /\ Positions(before.lines, IsFinished) = {} => todo_lines = before

\* two finished lines around a line that stays
C4_Witness ==
    /\ last.op = "remove_finished_tasks"
    /\ Len(before.lines) = 3
    /\ Positions(before.lines, IsFinished) = {0, 2}
    /\ Len(todo_lines.lines) = 1

(***************************************************************************)
(* C5.  remove_finished_tasks is idempotent: applied to its own result it  *)
(* finds an empty finished index and changes nothing.                      *)
(***************************************************************************)
C5_CleanIdempotent ==
    last.op = "remove_finished_tasks" =>
        /\ get_finished_tasks(todo_lines).count = 0
        /\ remove_finished_tasks(todo_lines) = todo_lines

\* the first application removed two lines
C5_Witness ==
    /\ last.op = "remove_finished_tasks"
    /\ Len(todo_lines.lines) + 2 = Len(before.lines)
    /\ remove_finished_tasks(todo_lines) = todo_lines

(***************************************************************************)
(* C6.  get_all_lines followed by save_todos, with no mutation between,    *)
(* leaves the backing file byte-for-byte what it was: a missing or empty   *)
(* file, a final line without terminator and lines longer than the fgets   *)
(* buffer included.                                                        *)
(***************************************************************************)
C6_RoundTrip ==
    (pc = "saved" /\ ~mutated) => file = orig

\* a file with an over-long line and no final terminator went through
C6_Witness ==
    /\ pc = "saved"
    /\ ~mutated
    /\ file.bytes = LongOther \o <<NL>> \o Task1
    /\ Len(todo_lines.lines) = 3

(***************************************************************************)
(* C1.  After any operations and save_todos, every line of the file that   *)
(* was read which is OTHER (after its leading whitespace it begins with    *)
(* neither "- [ ]" nor "- [x]"), however long, is in the saved file        *)
(* byte-identical, and the OTHER lines keep their order.                   *)
(***************************************************************************)
\* The lines of a file: each ends with its newline, but perhaps the last
RECURSIVE FileLines(_)
FileLines(bytes) ==
    IF bytes = <<>> THEN <<>>
    ELSE LET nls == {i \in 1..Len(bytes) : bytes[i] = NL}
             n == IF nls = {} THEN Len(bytes) ELSE Min(nls)
         IN  <<SubSeq(bytes, 1, n)>> \o FileLines(SubSeq(bytes, n + 1, Len(bytes)))

\* a is b with some elements left out
RECURSIVE IsSubsequence(_, _)
IsSubsequence(a, b) ==
    IF a = <<>> THEN TRUE
    ELSE IF b = <<>> THEN FALSE
    ELSE IF Head(a) = Head(b) THEN IsSubsequence(Tail(a), Tail(b))
    ELSE IsSubsequence(a, Tail(b))

C1_Passthrough ==
    pc = "saved" =>
        IsSubsequence(SelectSeq(FileLines(orig.bytes), IsOther), FileLines(file.bytes))

\* the same, for the files none of whose lines is too long for the buffer
C1_PassthroughShortLines ==
    (pc = "saved" /\ \A i \in DOMAIN FileLines(orig.bytes) :
                          Len(FileLines(orig.bytes)[i]) < MAX_LINE_LENGTH) =>
        SelectSeq(FileLines(orig.bytes), IsOther) = SelectSeq(FileLines(file.bytes), IsOther)

(***************************************************************************)
(* The vocabulary of the batch properties.                                 *)
(***************************************************************************)
\* The decimal numeral of a one-digit integer
Numeral(n) == IF n < 0 THEN <<"-", Digits[1 - n]>> ELSE <<Digits[n + 1]>>

IsNumber(token) == \E n \in (0 - 9)..9 : token = Numeral(n)

NumberOf(token) == CHOOSE n \in (0 - 9)..9 : token = Numeral(n)

BatchOf(fn) == last.op = "call_fn_with_indexes" /\ last.fn = fn

\* The tokens are pairwise distinct numbers of unfinished tasks of d
DistinctValid(d, tokens) ==
    /\ \A i \in DOMAIN tokens : IsNumber(tokens[i]) /\ ValidNumber(d, NumberOf(tokens[i]))
    /\ \A i, j \in DOMAIN tokens : i # j => NumberOf(tokens[i]) # NumberOf(tokens[j])

\* The positions of the tasks the tokens number in d
Targets(d, tokens) == {TaskPosition(d, NumberOf(tokens[i])) : i \in DOMAIN tokens}

(***************************************************************************)
(* C7.  A batch remove over pairwise distinct valid task numbers, in any   *)
(* order on the command line, deletes exactly the lines that were the      *)
(* unfinished tasks of those numbers before the batch, and no other line   *)
(* (tasks A, B, C and the numbers 1 3 leave B).                            *)
(***************************************************************************)
C7_BatchRemove ==
    (BatchOf("remove_task") /\ DistinctValid(before, last.tokens)) =>
        /\ ~todo_lines.null
        /\ todo_lines.lines = Without(before.lines, Targets(before, last.tokens))

\* three unfinished tasks, numbers 1 3: the second is left
C7_Witness ==
    /\ BatchOf("remove_task")
    /\ last.tokens = <<<<"1">>, <<"3">>>>
    /\ Len(before.lines) = 3
    /\ Positions(before.lines, IsUnfinished) = {0, 1, 2}
    /\ todo_lines.lines = <<before.lines[2]>>

(***************************************************************************)
(* C8 (as claimed).  check_todo applied to distinct valid task numbers one *)
(* at a time gives the same document in whatever order they are applied:   *)
(* every order gives what the descending order of call_fn_with_indexes     *)
(* gives.                                                                  *)
(***************************************************************************)
\* The orders the tokens can be applied in
Orders(tokens) ==
    {o \in [DOMAIN tokens -> DOMAIN tokens] : \A i, j \in DOMAIN tokens : i # j => o[i] # o[j]}

C8_AnyOrder ==
    (BatchOf("check_todo") /\ DistinctValid(before, last.tokens)) =>
        \A o \in Orders(last.tokens) :
            ApplyLoop("check_todo", before,
                      [i \in DOMAIN last.tokens |-> NumberOf(last.tokens[o[i]])]) = todo_lines

(***************************************************************************)
(* C8 (amended).  A batch check over pairwise distinct valid task numbers, *)
(* applied in the descending order call_fn_with_indexes uses, marks        *)
(* exactly the lines that were the unfinished tasks of those numbers       *)
(* before the batch and leaves every other line as it was.                 *)
(***************************************************************************)
C8_BatchCheck ==
    (BatchOf("check_todo") /\ DistinctValid(before, last.tokens)) =>
        /\ ~todo_lines.null
        /\ todo_lines.lines =
               [i \in 1..Len(before.lines) |->
                   IF i - 1 \in Targets(before, last.tokens)
                   THEN Checked(before.lines[i]) ELSE before.lines[i]]

\* numbers 1 2 given in ascending order: both tasks are marked
C8_Witness ==
    /\ BatchOf("check_todo")
    /\ last.tokens = <<<<"1">>, <<"2">>>>
    /\ ValidNumber(before, 2)
    /\ Cardinality(Positions(todo_lines.lines, IsFinished)) =
           Cardinality(Positions(before.lines, IsFinished)) + 2

(***************************************************************************)
(* C9.  check_todo(n) and remove_task(n) with n <= 0 or n greater than the *)
(* number of unfinished lines leave the document, absent or not, as it     *)
(* was; in a batch such a number is skipped and the others are applied:    *)
(* the result is that of the batch without the invalid numbers.            *)
(***************************************************************************)
C9_InvalidIndex ==
    /\ (last.op \in {"check_todo", "remove_task"} /\ ~ValidNumber(before, last.index))
           => todo_lines = before
    /\ \A fn \in {"check_todo", "remove_task"} :
           (BatchOf(fn) /\ \A i \in DOMAIN last.tokens : IsNumber(last.tokens[i])) =>
               LET Valid(token) == ValidNumber(before, NumberOf(token))
               IN  todo_lines = call_fn_with_indexes(before, SelectSeq(last.tokens, Valid), fn)

\* number 0 is skipped, then task 1 of two is removed
C9_Witness ==
    /\ BatchOf("remove_task")
    /\ last.tokens = <<<<"0">>, <<"1">>>>
    /\ Cardinality(Positions(before.lines, IsUnfinished)) = 2
    /\ todo_lines.lines = Tail(before.lines)

(***************************************************************************)
(* C17 (as claimed).  get_all_lines produces exactly one document line per *)
(* file line, and a file line longer than MAX_LINE_LENGTH - 1 characters   *)
(* is stored as its first MAX_LINE_LENGTH - 1 characters, the excess being *)
(* discarded.                                                              *)
(***************************************************************************)
C17_LoadTruncates ==
    (last.op = "get_all_lines" /\ ~todo_lines.null) =>
        LET fl == FileLines(orig.bytes)
        IN  /\ Len(todo_lines.lines) = Len(fl)
            /\ \A i \in DOMAIN fl :
                   todo_lines.lines[i] =
                       SubSeq(fl[i], 1, IF Len(fl[i]) < MAX_LINE_LENGTH
                                        THEN Len(fl[i]) ELSE MAX_LINE_LENGTH - 1)

(***************************************************************************)
(* C17 (amended).  get_all_lines discards nothing: the document lines,     *)
(* joined in order, are the file.  Each document line has between 1 and    *)
(* MAX_LINE_LENGTH - 1 characters, a newline only as its last one, and one *)
(* without a newline is MAX_LINE_LENGTH - 1 long or the last.  So a file   *)
(* line that does not fit the buffer becomes several document lines, and   *)
(* the document has more lines than the file exactly when there is one.    *)
(***************************************************************************)
\* The number of characters of the strings of ls
RECURSIVE TotalLen(_)
TotalLen(ls) == IF ls = <<>> THEN 0 ELSE Len(Head(ls)) + TotalLen(Tail(ls))

\* bytes is the strings of ls one after the other
IsJoined(bytes, ls) ==
    /\ Len(bytes) = TotalLen(ls)
    /\ \A i \in DOMAIN ls : \A c \in DOMAIN ls[i] :
           bytes[TotalLen(SubSeq(ls, 1, i - 1)) + c] = ls[i][c]

C17_LoadSplits ==
    last.op = "get_all_lines" =>
        LET fl == FileLines(orig.bytes)
            dl == todo_lines.lines
        IN  /\ todo_lines.null <=> (~orig.exists \/ orig.bytes = <<>>)
            /\ \A i \in DOMAIN dl :
                   /\ 1 <= Len(dl[i]) /\ Len(dl[i]) <= MAX_LINE_LENGTH - 1
                   /\ \A k \in 1..(Len(dl[i]) - 1) : dl[i][k] # NL
                   /\ dl[i][Len(dl[i])] # NL =>
                          Len(dl[i]) = MAX_LINE_LENGTH - 1 \/ i = Len(dl)
            /\ IsJoined(orig.bytes, dl)
            /\ Len(dl) >= Len(fl)
            /\ Len(dl) > Len(fl) <=> \E i \in DOMAIN fl : Len(fl[i]) >= MAX_LINE_LENGTH

\* the over-long line was read as two document lines
C17_Witness ==
    /\ last.op = "get_all_lines"
    /\ orig.bytes = LongOther \o <<NL>>
    /\ Len(todo_lines.lines) = 2
    /\ todo_lines.lines[2] = <<"-", " ", "[", " ", "]", " ", "z", NL>>

(***************************************************************************)
(* C12.  save_todos on an absent document does not open or change the      *)
(* backing file; on a loaded document it overwrites the file with the      *)
(* current lines in order, and with an empty file when the mutations have  *)
(* deleted every line.                                                     *)
(***************************************************************************)
C12_SaveOrNot ==
    pc = "saved" =>
        /\ todo_lines.null => file = orig /\ writes = 0
        /\ ~todo_lines.null =>
               /\ file.exists /\ writes = 1
               /\ IsJoined(file.bytes, todo_lines.lines)
               /\ todo_lines.lines = <<>> => file.bytes = <<>>

\* every line of a file was deleted and the file is saved empty
C12_Witness ==
    /\ pc = "saved"
    /\ ~todo_lines.null
    /\ todo_lines.lines = <<>>
    /\ orig.bytes # <<>>
    /\ file.bytes = <<>>

(***************************************************************************)
(* C19.  call_fn_with_indexes calls the operation for a token exactly when *)
(* the whole token is a strictly positive decimal integer: every other     *)
(* token (non-numeric, partly numeric such as "2x", zero, negative) gets a *)
(* "Skipping invalid index" line and is not applied, and the operation is  *)
(* called once per remaining token in non-increasing numeric order.        *)
(***************************************************************************)
IsPositiveNumber(token) == IsNumber(token) /\ NumberOf(token) > 0

NotPositiveNumber(token) == ~IsPositiveNumber(token)

IsSkipLine(line) == line.format = "Skipping invalid index: %s"

C19_TokenFilter ==
    \A fn \in {"check_todo", "remove_task"} :
        BatchOf(fn) =>
            LET kept == SelectSeq(last.tokens, IsPositiveNumber)
                skipped == SelectSeq(last.tokens, NotPositiveNumber)
                numbers == [i \in DOMAIN kept |-> NumberOf(kept[i])]
            IN  /\ SelectSeq(out, IsSkipLine) =
                       [i \in DOMAIN skipped |->
                           Printf("Skipping invalid index: %s", 0, 0, skipped[i])]
                /\ todo_lines = ApplyLoop(fn, before, qsort(numbers))

(***************************************************************************)
(* C20.  A batch in which a valid task number is supplied more than once   *)
(* gives the same document as the batch in which it is supplied once: the  *)
(* lines checked or removed are exactly the unfinished tasks the supplied  *)
(* values numbered before the batch.                                       *)
(***************************************************************************)
\* The tokens are numbers of unfinished tasks of d, repeated or not
AllValid(d, tokens) ==
    \A i \in DOMAIN tokens : IsNumber(tokens[i]) /\ ValidNumber(d, NumberOf(tokens[i]))

C20_Duplicates ==
    /\ (BatchOf("remove_task") /\ AllValid(before, last.tokens)) =>
           todo_lines.lines = Without(before.lines, Targets(before, last.tokens))
    /\ (BatchOf("check_todo") /\ AllValid(before, last.tokens)) =>
           todo_lines.lines =
               [i \in 1..Len(before.lines) |->
                   IF i - 1 \in Targets(before, last.tokens)
                   THEN Checked(before.lines[i]) ELSE before.lines[i]]

(***************************************************************************)
(* C11.  When the file can be opened, add_todo(text) called on the freshly *)
(* loaded document leaves the file as the old content, then a single       *)
(* newline if the old content is not empty and does not end with one, then *)
(* "- [ ] " text "\n".  On a missing file the result is exactly that task  *)
(* line, and read again the file ends with the new task as a line of its   *)
(* own, after the old content and the separator.                           *)
(***************************************************************************)
TaskLine(text) == <<"-", " ", "[", " ", "]", " ">> \o text \o <<NL>>

FirstAddAfterLoad ==
    /\ last.op = "add_todo"
    /\ ~mutated
    /\ writes = 1
    /\ out = <<>>

C11_AddResult ==
    FirstAddAfterLoad =>
        LET text == last.tokens[1]
            old == orig.bytes
            sep == IF old # <<>> /\ old[Len(old)] # NL THEN <<NL>> ELSE <<>>
            reload == get_all_lines(file).lines
            n == Len(reload)
        IN  /\ pc = "loaded"
            /\ added = <<text>>
            /\ file = [exists |-> TRUE, bytes |-> old \o sep \o TaskLine(text)]
            /\ ~orig.exists => file.bytes = TaskLine(text)
            /\ n >= 1
            /\ reload[n] = TaskLine(text)
            /\ IsJoined(old \o sep, SubSeq(reload, 1, n - 1))
            /\ old # <<>> => reload[n - 1][Len(reload[n - 1])] = NL

\* the old content is one task without its newline: the newline is inserted
C11_Witness ==
    /\ FirstAddAfterLoad
    /\ orig.bytes = Task1
    /\ last.tokens = <<<<"N", "e", "w">>>>
    /\ file.bytes = Task1 \o <<NL>> \o TaskLine(<<"N", "e", "w">>)
    /\ get_all_lines(file).lines = <<Task1 \o <<NL>>, TaskLine(<<"N", "e", "w">>)>>

(***************************************************************************)
(* C13.  When the file is missing or empty get_all_lines gives NULL, and   *)
(* the document stays NULL whatever is called.  On the NULL document       *)
(* list_todos, check_todo(n), remove_task(n) and remove_finished_tasks     *)
(* return without a crash and change nothing; each prints one line saying  *)
(* that there is no such task: "No unfinished tasks found." (for n <= 0    *)
(* check_todo and remove_task say "Invalid index: n" before they look at   *)
(* the document), "No finished tasks found." for remove_finished_tasks.    *)
(***************************************************************************)
NoStore == ~orig.exists \/ orig.bytes = <<>>

C13_AbsentDocument ==
    /\ (pc # "start" /\ NoStore) => (todo_lines.null /\ pc # "crashed")
    /\ (before.null /\ last.op = "list_todos") =>
           /\ todo_lines.null
           /\ out = <<Printf("No unfinished tasks found.", 0, 0, <<>>)>>
    /\ (before.null /\ last.op \in {"check_todo", "remove_task"}) =>
           /\ todo_lines.null
           /\ out = IF last.index <= 0
                    THEN <<Printf("Invalid index: %d", last.index, 0, <<>>)>>
                    ELSE <<Printf("No unfinished tasks found.", 0, 0, <<>>)>>
    /\ (before.null /\ last.op = "remove_finished_tasks") =>
           /\ todo_lines.null
           /\ out = <<Printf("No finished tasks found.", 0, 0, <<>>)>>

\* an empty file, check_todo(1)
C13_Witness ==
    /\ orig = [exists |-> TRUE, bytes |-> <<>>]
    /\ last.op = "check_todo"
    /\ last.index = 1
    /\ before.null
    /\ todo_lines.null
    /\ out = <<Printf("No unfinished tasks found.", 0, 0, <<>>)>>

(***************************************************************************)
(* C14.  list_todos prints one entry per unfinished line, in document      *)
(* order, numbered 1..k; the entry is the number, ") " and the task text:  *)
(* all of the line after its 5-character marker and the separator, nothing *)
(* of the text dropped.                                                    *)
(***************************************************************************)
\* The line after leading whitespace, the marker and the separating space
TaskText(line) ==
    LET t == Stripped(line)
        r == SubSeq(t, 6, Len(t))
    IN  IF r # <<>> /\ r[1] = " " THEN Tail(r) ELSE r

C14_ListOutput ==
    (last.op = "list_todos" /\ ~todo_lines.null
        /\ Positions(todo_lines.lines, IsUnfinished) # {}) =>
        LET tasks == Positions(todo_lines.lines, IsUnfinished)
        IN  /\ pc # "crashed"
            /\ out = [n \in 1..Cardinality(tasks) |->
                          Printf("%d) %s", n, 0, TaskText(todo_lines.lines[Nth(tasks, n) + 1]))]

(***************************************************************************)
(* C18.  A run that loads a non-empty document, calls add_todo(text) and   *)
(* mutations of the document, and then saves with save_todos, ends with    *)
(* the line "- [ ] " text "\n" in the file.                                *)
(***************************************************************************)
C18_AddThenSave ==
    (pc = "saved" /\ orig.bytes # <<>> /\ mutated /\ added # <<>>) =>
        \A i \in DOMAIN added : TaskLine(added[i]) \in Range(FileLines(file.bytes))

(***************************************************************************)
(* C15.  For the check and remove commands, when the operands are missing  *)
(* (no index token) or invalid (every index token is non-numeric or        *)
(* <= 0), main prints usage, returns a non-zero status, and neither        *)
(* changes the document nor rewrites the file.                             *)
(***************************************************************************)
\* The command of the command line argv and the tokens after it
CommandAt(argv) == IF Len(argv) >= 2 /\ EndsWithMd(argv[2]) THEN 3 ELSE 2

IsUsageLine(line) ==
    line.format \in {"Usage:", "Usage: %s [<file.md>] check <index>",
                     "Usage: %s [<file.md>] remove <index>"}

BadOperands ==
    /\ last.op = "main"
    /\ Len(last.tokens) >= CommandAt(last.tokens)
    /\ last.tokens[CommandAt(last.tokens)] \in CheckCommands \cup RemoveCommands
    /\ \A i \in (CommandAt(last.tokens) + 1)..Len(last.tokens) : atoi(last.tokens[i]) <= 0

C15_RejectsBadOperands ==
    BadOperands =>
        /\ pc = "exited"
        /\ status # 0
        /\ \E i \in DOMAIN out : IsUsageLine(out[i])
        /\ todo_lines = before
        /\ file = orig
        /\ writes = 0

(***************************************************************************)
(* C16.  Two invocations on the same file can lose an update: the task one *)
(* of them has appended is gone from the final file when the other, which  *)
(* read the file before the append, writes its whole document afterwards.  *)
(* This race, or the other invocation removing or checking the new task    *)
(* itself after reading it, is the only way the appended line disappears:  *)
(* invocations that run one after the other lose nothing.                  *)
(***************************************************************************)
BothDone == \A p \in Procs : procs # NoProcs /\ procs[p].pc = "done"

\* p has appended its task and the line is not in the file
AddLost(p) ==
    /\ procs[p].cmd.op = "add_todo"
    /\ procs[p].persisted
    /\ TaskLine(procs[p].cmd.task) \notin Range(FileLines(file.bytes))

\* q read the file before p wrote it and wrote its whole document after
RewroteStale(q, p) ==
    /\ procs[q].cmd.op # "add_todo"
    /\ procs[q].persisted
    /\ procs[q].loadedAt < procs[p].wroteAt
    /\ procs[p].wroteAt < procs[q].wroteAt

\* q read the line p wrote and its own command took it out
TookOut(q, p) ==
    /\ procs[q].cmd.op # "add_todo"
    /\ procs[p].wroteAt < procs[q].loadedAt
    /\ TaskLine(procs[p].cmd.task) \in Range(procs[q].snapshot.lines)
    /\ TaskLine(procs[p].cmd.task) \notin Range(procs[q].doc.lines)

C16_LostOnlyByRace ==
    BothDone =>
        \A p, q \in Procs :
            (p # q /\ AddLost(p)) => (RewroteStale(q, p) \/ TookOut(q, p))

\* process 1 adds "b", process 2 checks task 1 of the file it read before
C16_Witness ==
    /\ BothDone
    /\ orig.bytes = Task1 \o <<NL>>
    /\ procs[1].cmd = Command("add_todo", 0, <<"b">>)
    /\ procs[2].cmd = Command("check_todo", 1, <<>>)
    /\ AddLost(1)
    /\ RewroteStale(2, 1)
    /\ file.bytes = Checked(Task1 \o <<NL>>)

(***************************************************************************)
(* C21.  list_todos never reads beyond the end of a line: for every        *)
(* unfinished line of the document it lists, the offset 6 it adds to the   *)
(* start of the line after its leading whitespace is at most the length of *)
(* the line from there, also for a last line that is the bare marker       *)
(* without a newline and for a marker followed directly by text.           *)
(***************************************************************************)
C21_ListInBounds ==
    (last.op = "list_todos" /\ ~before.null) =>
        /\ pc # "crashed"
        /\ \A p \in Positions(before.lines, IsUnfinished) :
               6 <= Len(Stripped(before.lines[p + 1]))

(***************************************************************************)
(* C22.  The scan of add_todo for the last line reads no slot of           *)
(* todo_lines behind the NULL terminator, in whatever state check_todo,    *)
(* remove_task, remove_finished_tasks and add_todo have left the loaded    *)
(* document, also when every line of it has been deleted.                  *)
(***************************************************************************)
\* add_todo has opened the file and gone on to the document
AddScanned == last.op = "add_todo" /\ ~before.null /\ out = <<>>

C22_ScanInBounds ==
    AddScanned =>
        /\ pc # "crashed"
        /\ \A k \in Range(add_todo_reads(before)) : k <= Len(before.lines)

(***************************************************************************)
(* C23.  In every document state, after whatever mutations, list_todos     *)
(* numbers the unfinished lines as check_todo and remove_task do: the      *)
(* entry it prints with number n is the text of the n-th unfinished line   *)
(* of the document as it is now, and that line is the one check_todo(n)    *)
(* marks and remove_task(n) deletes when called in the same state.         *)
(***************************************************************************)
Listed == last.op = "list_todos" /\ pc = "loaded" /\ ~todo_lines.null

C23_NumberingAgrees ==
    Listed =>
        LET lines == todo_lines.lines
            k == Cardinality(Positions(lines, IsUnfinished))
        IN  /\ k > 0 => Len(out) = k
            /\ \A n \in 1..k :
                   LET p == TaskPosition(todo_lines, n)
                       t == Stripped(lines[p + 1])
                   IN  /\ out[n].format = "%d) %s"
                       /\ out[n].a = n
                       /\ 6 <= Len(t) => out[n].text = SubSeq(t, 7, Len(t))
                       /\ check_todo(todo_lines, n).lines =
                              [lines EXCEPT ![p + 1] = Checked(lines[p + 1])]
                       /\ remove_task(todo_lines, n).lines = Without(lines, {p})

\* Task 1 was removed: the indented task, second in the file, is listed as 1
C23_Witness ==
    /\ Listed
    /\ mutated
    /\ orig.bytes = FileOf(<<Task1, Indented>>, TRUE)
    /\ todo_lines.lines = <<Indented \o <<NL>>>>
    /\ out = <<Printf("%d) %s", 1, 0, <<"w", NL>>)>>
    /\ check_todo(todo_lines, 1).lines = <<Checked(Indented \o <<NL>>)>>

(***************************************************************************)
(* C24.  The streaming check_todo(n), for n the number of an unfinished    *)
(* line of the file, rewrites the 5-character marker of that line and      *)
(* nothing else: the line keeps its leading whitespace and its text, every *)
(* other line is copied as it is.  When n numbers no unfinished line the   *)
(* file is left as it was.  Either way no temporary file is left.          *)
(***************************************************************************)
\* check_todo has read todo.md and created temp.md
Streamed ==
    /\ last.op = "stream_check_todo"
    /\ orig.exists
    /\ out # <<Printf("Error creating temporary file.", 0, 0, <<>>)>>

C24_StreamCheck ==
    Streamed =>
        LET lines == ReadLoop(orig.bytes, <<>>)
            n == last.index
        IN  /\ ~temp.exists
            /\ IF ValidNumber(Doc(lines), n)
               THEN LET p == TaskPosition(Doc(lines), n)
                    IN  file = [exists |-> TRUE,
                                bytes |-> Concat([lines EXCEPT ![p + 1] = Checked(@)])]
               ELSE file = orig

=============================================================================
